---- MODULE Spec2Model ----
(***************************************************************************)
(* A model of the interactive shell (src/cli.py, class Cli) and of the     *)
(* messaging facade (src/client.py, class Client).                         *)
(*                                                                         *)
(* Text is modelled as sequences of one-character strings, so that         *)
(* tokenizing (shlex.split), lower-casing (str.lower), joining             *)
(* (" ".join) and integer parsing (int) are computed character by          *)
(* character as the Python code computes them.                             *)
(*                                                                         *)
(* The shell is given its client at construction: class Client itself,     *)
(* whose method names are not the ones the shell calls, or an object       *)
(* that answers the shell's names by delegating to Client.  A handler      *)
(* is suspended at each await of a call on its client: the call is made,   *)
(* the service answers it, and the handler resumes, as three steps.        *)
(* Other parties may post to or remove from the selected chat between      *)
(* any two steps.                                                          *)
(***************************************************************************)
EXTENDS Integers, Sequences, FiniteSets, TLC

\* ------------------------------------------------------------------ bounds
\* Number of messages the busiest chat holds when the session starts.
MaxMsgs == 1
\* Date-range filter: timestamps are 0..MaxDate, the service yields at most
\* MaxStream messages.
MaxDate == 3
MaxStream == 4
\* Number of messages other parties post during the session.
MaxPosts == 1

\* ------------------------------------------------------- program constants
DefaultLimit == 1000

\* ------------------------------------------------------------------ values
\* Python values that may be None, an int or a str, as one record shape.
None == [tag |-> "none", i |-> 0, s |-> <<>>]
IntV(n) == [tag |-> "int", i |-> n, s |-> <<>>]
StrV(t) == [tag |-> "str", i |-> 0, s |-> t]

\* Python truthiness: None, 0 and "" are false.
Truthy(v) ==
    CASE v.tag = "none" -> FALSE
      [] v.tag = "int" -> v.i # 0
      [] OTHER -> Len(v.s) > 0

\* ------------------------------------------------------------------- text
Upper == <<"A","B","C","D","E","F","G","H","I","J","K","L","M",
           "N","O","P","Q","R","S","T","U","V","W","X","Y","Z">>
LowerLetters == <<"a","b","c","d","e","f","g","h","i","j","k","l","m",
                  "n","o","p","q","r","s","t","u","v","w","x","y","z">>
Digits == <<"0","1","2","3","4","5","6","7","8","9">>

IndexIn(c, seq) ==
    IF \E k \in DOMAIN seq : seq[k] = c
    THEN CHOOSE k \in DOMAIN seq : seq[k] = c
    ELSE 0

\* str.lower() on one character.
LowerChar(c) ==
    IF IndexIn(c, Upper) # 0 THEN LowerLetters[IndexIn(c, Upper)] ELSE c

\* str.lower()
Lower(t) == [k \in DOMAIN t |-> LowerChar(t[k])]

\* shlex's whitespace: space, tab, carriage return, line feed.
IsSpace(c) == c \in {" ", "\t", "\r", "\n"}
IsDigit(c) == IndexIn(c, Digits) # 0
DigitVal(c) == IndexIn(c, Digits) - 1

\* The characters U+000B (vertical tab), U+0085 (next line) and U+00A0
\* (no-break space), written as themselves.
VT == ""
NEL == ""
NBSP == " "

\* The whitespace int() skips around a literal: the ASCII characters 9 to 13
\* and space, and the Unicode spaces (of which U+0085 and U+00A0 are in the
\* model's alphabet).  The separators U+001C to U+001F are not skipped.
IsIntSpace(c) == c \in {" ", "\t", "\n", VT, "\f", "\r", NEL, NBSP}

\* " ".join(args)
RECURSIVE Join(_)
Join(args) ==
    IF Len(args) = 0 THEN <<>>
    ELSE IF Len(args) = 1 THEN args[1]
    ELSE args[1] \o <<" ">> \o Join(Tail(args))

\* int(): the text without the whitespace before and after the literal.
RECURSIVE SkipSpaceBefore(_)
SkipSpaceBefore(t) ==
    IF Len(t) > 0 /\ IsIntSpace(t[1]) THEN SkipSpaceBefore(Tail(t)) ELSE t

RECURSIVE SkipSpaceAfter(_)
SkipSpaceAfter(t) ==
    IF Len(t) > 0 /\ IsIntSpace(t[Len(t)])
    THEN SkipSpaceAfter(SubSeq(t, 1, Len(t) - 1))
    ELSE t

SkipSpace(t) == SkipSpaceAfter(SkipSpaceBefore(t))

\* The digits of an integer literal: digits, with single underscores allowed
\* between digits.
DigitsOk(d) ==
    /\ Len(d) > 0
    /\ IsDigit(d[1])
    /\ IsDigit(d[Len(d)])
    /\ \A k \in DOMAIN d : IsDigit(d[k]) \/ d[k] = "_"
    /\ \A k \in 1..(Len(d) - 1) : ~(d[k] = "_" /\ d[k + 1] = "_")

RECURSIVE DigitsValue(_, _)
DigitsValue(d, acc) ==
    IF Len(d) = 0 THEN acc
    ELSE IF d[1] = "_" THEN DigitsValue(Tail(d), acc)
    ELSE DigitsValue(Tail(d), 10 * acc + DigitVal(d[1]))

\* int(text): [ok |-> the text is an integer literal, val |-> its value].
\* Surrounding whitespace is skipped, one sign is accepted.  The model's text
\* is ASCII (plus U+0085 and U+00A0), shorter than int()'s digit limit.
ParseInt(t) ==
    LET u == SkipSpace(t)
        signed == Len(u) > 0 /\ u[1] \in {"+", "-"}
        d == IF signed THEN Tail(u) ELSE u
    IN  IF DigitsOk(d)
        THEN [ok |-> TRUE,
              val |-> IF signed /\ u[1] = "-"
                      THEN 0 - DigitsValue(d, 0)
                      ELSE DigitsValue(d, 0)]
        ELSE [ok |-> FALSE, val |-> 0]

\* shlex.split(line): POSIX rules, whitespace_split on, no comment characters.
\* st is the lexer state: "ws" (between tokens), "word", "dq"/"sq" (inside
\* double/single quotes), "bs" (after a backslash, esc = the state to return
\* to).  The result is [err |-> a ValueError was raised, parts |-> tokens].
RECURSIVE Lex(_, _, _, _, _, _, _)
Lex(line, k, st, esc, tok, quoted, out) ==
    IF k > Len(line)
    THEN CASE st \in {"dq", "sq"} -> [err |-> TRUE, parts |-> <<>>]
           [] st = "bs" -> [err |-> TRUE, parts |-> <<>>]
           [] st = "word" ->
                [err |-> FALSE,
                 parts |-> IF Len(tok) > 0 \/ quoted THEN Append(out, tok) ELSE out]
           [] OTHER -> [err |-> FALSE, parts |-> out]
    ELSE LET c == line[k] IN
      CASE st = "ws" ->
             IF IsSpace(c) THEN Lex(line, k + 1, "ws", esc, <<>>, FALSE, out)
             ELSE IF c = "\\" THEN Lex(line, k + 1, "bs", "word", <<>>, FALSE, out)
             ELSE IF c = "\"" THEN Lex(line, k + 1, "dq", esc, <<>>, TRUE, out)
             ELSE IF c = "'" THEN Lex(line, k + 1, "sq", esc, <<>>, TRUE, out)
             ELSE Lex(line, k + 1, "word", esc, <<c>>, FALSE, out)
        [] st = "word" ->
             IF IsSpace(c)
             THEN Lex(line, k + 1, "ws", "ws", <<>>, FALSE,
                      IF Len(tok) > 0 \/ quoted THEN Append(out, tok) ELSE out)
             ELSE IF c = "\"" THEN Lex(line, k + 1, "dq", esc, tok, TRUE, out)
             ELSE IF c = "'" THEN Lex(line, k + 1, "sq", esc, tok, TRUE, out)
             ELSE IF c = "\\" THEN Lex(line, k + 1, "bs", "word", tok, quoted, out)
             ELSE Lex(line, k + 1, "word", esc, Append(tok, c), quoted, out)
        [] st = "dq" ->
             IF c = "\"" THEN Lex(line, k + 1, "word", esc, tok, TRUE, out)
             ELSE IF c = "\\" THEN Lex(line, k + 1, "bs", "dq", tok, TRUE, out)
             ELSE Lex(line, k + 1, "dq", esc, Append(tok, c), TRUE, out)
        [] st = "sq" ->
             IF c = "'" THEN Lex(line, k + 1, "word", esc, tok, TRUE, out)
             ELSE Lex(line, k + 1, "sq", esc, Append(tok, c), TRUE, out)
        [] OTHER ->
             \* after a backslash: inside double quotes the backslash is kept
             \* unless it escapes a backslash or the quote itself
             Lex(line, k + 1, esc, esc,
                 IF esc = "dq" /\ c # "\\" /\ c # "\""
                 THEN tok \o <<"\\", c>>
                 ELSE Append(tok, c),
                 quoted, out)

Split(line) == Lex(line, 1, "ws", "ws", <<>>, FALSE, <<>>)

\* ------------------------------------------------------------ input lines
\* ''
LineEmpty ==
    <<>>

\* ' '
LineSpace ==
    <<" ">>

\* 'select "Team'
LineOpenQuote ==
    <<"s","e","l","e","c","t"," ","\"","T","e","a","m">>

\* 'list m 1\\'
LineTrailingBackslash ==
    <<"l","i","s","t"," ","m"," ","1","\\">>

\* 'select'
LineSelect ==
    <<"s","e","l","e","c","t">>

\* 'select Team'
LineSelectTeam ==
    <<"s","e","l","e","c","t"," ","T","e","a","m">>

\* 'select team'
LineSelectTeamLower ==
    <<"s","e","l","e","c","t"," ","t","e","a","m">>

\* 'select "Team Chat"'
LineSelectTeamChat ==
    <<"s","e","l","e","c","t"," ","\"","T","e","a","m"," ","C","h","a","t","\"">>

\* 'select Team  Chat'
LineSelectTeamChatWords ==
    <<"s","e","l","e","c","t"," ","T","e","a","m"," "," ","C","h","a","t">>

\* 'SELECT Dup'
LineSelectDup ==
    <<"S","E","L","E","C","T"," ","D","u","p">>

\* 'select Nope'
LineSelectNope ==
    <<"s","e","l","e","c","t"," ","N","o","p","e">>

\* 'list'
LineList ==
    <<"l","i","s","t">>

\* 'list messages'
LineListMessages ==
    <<"l","i","s","t"," ","m","e","s","s","a","g","e","s">>

\* 'list MSG 1'
LineListMsg1 ==
    <<"l","i","s","t"," ","M","S","G"," ","1">>

\* 'list m abc'
LineListMAbc ==
    <<"l","i","s","t"," ","m"," ","a","b","c">>

\* 'list users'
LineListUsers ==
    <<"l","i","s","t"," ","u","s","e","r","s">>

\* 'list x'
LineListX ==
    <<"l","i","s","t"," ","x">>

\* 'list ""'
LineListEmptyTarget ==
    <<"l","i","s","t"," ","\"","\"">>

\* 'list m -1'
LineListMNeg ==
    <<"l","i","s","t"," ","m"," ","-","1">>

\* 'list m " 2 "'
LineListMPadded ==
    <<"l","i","s","t"," ","m"," ","\""," ","2"," ","\"">>

\* 'list m 1 zz'
LineListM1Extra ==
    <<"l","i","s","t"," ","m"," ","1"," ","z","z">>

\* 'list x y'
LineListXY ==
    <<"l","i","s","t"," ","x"," ","y">>

\* 'list m 1_0'
LineListMUnderscore ==
    <<"l","i","s","t"," ","m"," ","1","_","0">>

\* 'save'
LineSave ==
    <<"s","a","v","e">>

\* 'save m'
LineSaveM ==
    <<"s","a","v","e"," ","m">>

\* 'save message 1'
LineSaveMessage1 ==
    <<"s","a","v","e"," ","m","e","s","s","a","g","e"," ","1">>

\* 'save u'
LineSaveU ==
    <<"s","a","v","e"," ","u">>

\* 'save x'
LineSaveX ==
    <<"s","a","v","e"," ","x">>

\* 'save m 1.5'
LineSaveMFloat ==
    <<"s","a","v","e"," ","m"," ","1",".","5">>

\* 'delete'
LineDelete ==
    <<"d","e","l","e","t","e">>

\* 'delete messages'
LineDeleteMessages ==
    <<"d","e","l","e","t","e"," ","m","e","s","s","a","g","e","s">>

\* 'Delete Msg +1'
LineDeleteM1 ==
    <<"D","e","l","e","t","e"," ","M","s","g"," ","+","1">>

\* 'delete users'
LineDeleteUsers ==
    <<"d","e","l","e","t","e"," ","u","s","e","r","s">>

\* 'delete m x'
LineDeleteMX ==
    <<"d","e","l","e","t","e"," ","m"," ","x">>

\* 'delete m 0'
LineDeleteM0 ==
    <<"d","e","l","e","t","e"," ","m"," ","0">>

\* 'help'
LineHelp ==
    <<"h","e","l","p">>

\* 'exit'
LineExit ==
    <<"e","x","i","t">>

\* 'foo'
LineFoo ==
    <<"f","o","o">>

\* '""'
LineQuotedEmpty ==
    <<"\"","\"">>

\* 'list m 1\x0c' (a form feed after the count)
LineListMFormFeed ==
    <<"l","i","s","t"," ","m"," ","1","\f">>

\* 'list m 1\x1c' (a file separator after the count)
LineListMFileSep ==
    <<"l","i","s","t"," ","m"," ","1","">>

Lines ==
    {LineEmpty,
     LineSpace,
     LineOpenQuote,
     LineTrailingBackslash,
     LineSelect,
     LineSelectTeam,
     LineSelectTeamLower,
     LineSelectTeamChat,
     LineSelectTeamChatWords,
     LineSelectDup,
     LineSelectNope,
     LineList,
     LineListMessages,
     LineListMsg1,
     LineListMAbc,
     LineListUsers,
     LineListX,
     LineListEmptyTarget,
     LineListMNeg,
     LineListMPadded,
     LineListM1Extra,
     LineListXY,
     LineListMUnderscore,
     LineSave,
     LineSaveM,
     LineSaveMessage1,
     LineSaveU,
     LineSaveX,
     LineSaveMFloat,
     LineDelete,
     LineDeleteMessages,
     LineDeleteM1,
     LineDeleteUsers,
     LineDeleteMX,
     LineDeleteM0,
     LineHelp,
     LineExit,
     LineFoo,
     LineQuotedEmpty,
     LineListMFormFeed,
     LineListMFileSep}

NameTeam == <<"T","e","a","m">>

NameTeamChat == <<"T","e","a","m"," ","C","h","a","t">>

NameDup == <<"D","u","p">>

W_select == <<"s","e","l","e","c","t">>

W_list == <<"l","i","s","t">>

W_save == <<"s","a","v","e">>

W_delete == <<"d","e","l","e","t","e">>

W_exit == <<"e","x","i","t">>

W_help == <<"h","e","l","p">>

W_m == <<"m">>

W_msg == <<"m","s","g">>

W_message == <<"m","e","s","s","a","g","e">>

W_messages == <<"m","e","s","s","a","g","e","s">>

W_u == <<"u">>

W_user == <<"u","s","e","r">>

W_users == <<"u","s","e","r","s">>

\* ------------------------------------------------------------ command words
MessageTargets == {W_m, W_msg, W_message, W_messages}
UserTargets == {W_u, W_user, W_users}

\* ------------------------------------------------------- messaging service
\* The account's dialogs, in the order the service lists them.  Two dialogs
\* share the name "Dup".  Identifiers are the service's: positive for users,
\* negative for groups, never zero.
Dialogs ==
    << [name |-> NameTeam, id |-> 1],
       [name |-> NameTeamChat, id |-> -2],
       [name |-> NameDup, id |-> 2],
       [name |-> NameDup, id |-> 3] >>

ChatIds == {Dialogs[k].id : k \in DOMAIN Dialogs}

\* A message: identifier, sender, text, optional date (a one-digit timestamp).
Msg(id) ==
    [id |-> id,
     sender |-> 100 + (id % 2),
     text |-> IF id % 3 = 0 THEN <<>> ELSE <<"h","i">>,
     date |-> IF id % 2 = 0 THEN None ELSE IntV(id % 10)]

\* Messages per chat when the session starts, newest first.
InitStore ==
    [c \in ChatIds |->
        CASE c = 1 -> [k \in 1..MaxMsgs |-> Msg(10 + k)]
          [] c = 2 -> <<Msg(21)>>
          [] c = 3 -> <<Msg(31)>>
          [] OTHER -> <<>>]

\* A participant: identifier, optional username, first and last name.
User(id) ==
    [id |-> id,
     username |-> IF id % 2 = 0 THEN None ELSE StrV(<<"u">>),
     first_name |-> StrV(<<"f">>),
     last_name |-> None]

Participants ==
    [c \in ChatIds |->
        CASE c = 1 -> <<User(101), User(102)>>
          [] c = 2 -> <<User(101)>>
          [] c = 3 -> <<User(103)>>
          [] OTHER -> <<>>]

Max(a, b) == IF a >= b THEN a ELSE b
Min(a, b) == IF a <= b THEN a ELSE b

Take(seq, n) == SubSeq(seq, 1, Min(Max(n, 0), Len(seq)))

\* One call of the shell on the facade, with what came back:
\* ret is the facade's return value when it is a scalar, msgs the identifiers
\* of the messages or users returned, svc the count the service reported.
Call(op, chat, name, n, ids, ret, msgs, svc) ==
    [op |-> op, chat |-> chat, name |-> name, n |-> n, ids |-> ids,
     ret |-> ret, msgs |-> msgs, svc |-> svc]

Ids(seq) == [k \in DOMAIN seq |-> seq[k].id]

\* The identifier of the first message another party posts; later ones count
\* up from it.
FirstPosted == 41

\* ------------------------------------------------------------------ facade
\* The methods class Client defines.
ClientMethods ==
    {"connect", "me", "disconnect", "all_chats", "chat_by_id",
     "all_messages_in_chat", "my_messages_in_chat", "all_users",
     "canc_all_messages", "messages_between_dates"}

\* The names under which the shell calls its client, each with the Client
\* method that does that work.
Delegate ==
    [get_chat_id |-> "chat_by_id",
     get_all_messages |-> "all_messages_in_chat",
     get_users |-> "all_users",
     delete_messages |-> "canc_all_messages"]

\* The client handed to Cli.__init__: an instance of class Client itself, or
\* an object that answers the shell's four names by delegating each to the
\* Client method of Delegate.
Clients == {"Client", "Adapter"}

\* Attribute lookup self.client.<name>: whether the client has the method.
\* When it has not, the lookup raises AttributeError.
Provides(cl, name) ==
    IF cl = "Client"
    THEN name \in ClientMethods
    ELSE name \in DOMAIN Delegate /\ Delegate[name] \in ClientMethods

\* Client.chat_by_id: the identifier of the first dialog whose name equals
\* the given name, None when there is none.
chat_by_id(dialogs, name) ==
    IF \E k \in DOMAIN dialogs : dialogs[k].name = name
    THEN IntV(dialogs[CHOOSE k \in DOMAIN dialogs :
                        /\ dialogs[k].name = name
                        /\ \A j \in 1..(k - 1) : dialogs[j].name # name].id)
    ELSE None

\* Client.all_messages_in_chat: up to n of the chat's most recent messages.
all_messages_in_chat(st, chat, n) == Take(st[chat], n)

\* Client.all_users: the chat's full participant list.
all_users(chat) == Participants[chat]

\* Client.canc_all_messages awaits the service's bulk delete and returns
\* nothing: whatever count k the service reports, the caller gets None.
canc_all_messages(k) == None

\* The service side of the bulk delete: the chat without the given messages,
\* and the number of messages that removes.
Remove(seq, ids) ==
    SelectSeq(seq, LAMBDA m : ~(\E j \in DOMAIN ids : ids[j] = m.id))

Removed(seq, ids) == Len(seq) - Len(Remove(seq, ids))

\* -------------------------------------------------------------------- shell
Out(text, arg) == [text |-> text, arg |-> arg]

\* Cli.__init__: self.limit = limit if limit else 1000
InitLimit(lim) == IF Truthy(lim) THEN lim ELSE IntV(DefaultLimit)

\* parse_limit keeping the target when the count does not parse.
ParseLimitKeepTarget(args, lim) ==
    IF Len(args) = 0 THEN [target |-> None, count |-> None]
    ELSE IF Len(args) = 1 THEN [target |-> StrV(Lower(args[1])), count |-> lim]
    ELSE IF ParseInt(args[2]).ok
         THEN [target |-> StrV(Lower(args[1])),
               count |-> IntV(ParseInt(args[2]).val)]
         ELSE [target |-> StrV(Lower(args[1])), count |-> None]

\* Cli.parse_limit
parse_limit(args, lim) ==
    IF Len(args) = 0 THEN [target |-> None, count |-> None]
    ELSE IF Len(args) = 1 THEN [target |-> StrV(Lower(args[1])), count |-> lim]
    ELSE IF ParseInt(args[2]).ok
         THEN [target |-> StrV(Lower(args[1])),
               count |-> IntV(ParseInt(args[2]).val)]
         ELSE [target |-> None, count |-> None]

\* "if not self.current" in cmd_list, cmd_save and cmd_delete
NoChatSelected(cur) == ~Truthy(cur)

\* cmd_sel assigning self.current before testing the lookup's result.
SelCurrentAlways(cur, chat_id) == chat_id

\* Cli.cmd_sel: the selection after get_chat_id returned chat_id
SelCurrent(cur, chat_id) == IF chat_id = None THEN cur ELSE chat_id

\* delete_messages without its test for an empty identifier list.
NoIdsIgnored(ids) == FALSE

\* "if not ids" in Cli.delete_messages
NoIds(ids) == Len(ids) = 0

\* delete_messages taking the identifiers of the whole chat.
DeleteIdsAll(st, chat, msgs) == Ids(st[chat])

\* "ids = [m.id for m in msgs]" in Cli.delete_messages
DeleteIds(st, chat, msgs) == Ids(msgs)

\* No file written.
NoFile == [kind |-> "none", data |-> <<>>]

\* The call on the client the shell is suspended on, if any: the method
\* awaited and its arguments, whether the service has answered, and the
\* answer (msgs: the dialogs, messages or users returned; svc: the count
\* the service reported).
NoPending ==
    [op |-> "none", chat |-> None, name |-> <<>>, n |-> None, ids |-> <<>>,
     served |-> FALSE, msgs |-> <<>>, svc |-> 0]

Sent(op, chat, name, n, ids) ==
    [op |-> op, chat |-> chat, name |-> name, n |-> n, ids |-> ids,
     served |-> FALSE, msgs |-> <<>>, svc |-> 0]

\* What a handler did from the point it started or resumed to its return or
\* its next await: printed lines, the calls answered so far, the file
\* written, the exception that left it ("none" otherwise), and the call it
\* is suspended on.
Effect(out, cs, wr, pend) ==
    [out |-> out, calls |-> cs, written |-> wr, raised |-> "none",
     pending |-> pend]

\* An exception left the handler: nothing printed.
Raise(ex, cs) ==
    [out |-> <<>>, calls |-> cs, written |-> NoFile, raised |-> ex,
     pending |-> NoPending]

\* "await self.client.<op>(...)": the attribute lookup raises AttributeError
\* when the client has no such method; otherwise the call is made and the
\* handler is suspended until it is answered.
Await(cl, cs, op, chat, name, n, ids) ==
    IF ~Provides(cl, op)
    THEN Raise("AttributeError", cs)
    ELSE Effect(<<>>, cs, NoFile, Sent(op, chat, name, n, ids))

\* The service answers the call p from the store as it is now; a delete
\* removes those of the identifiers still present.
serve(st, p) ==
    CASE p.op = "get_chat_id" ->
            [store |-> st, pending |-> [p EXCEPT !.served = TRUE, !.msgs = Dialogs]]
      [] p.op = "get_all_messages" ->
            [store |-> st,
             pending |-> [p EXCEPT !.served = TRUE,
                                   !.msgs = all_messages_in_chat(st, p.chat.i, p.n.i)]]
      [] p.op = "get_users" ->
            [store |-> st,
             pending |-> [p EXCEPT !.served = TRUE, !.msgs = all_users(p.chat.i)]]
      [] OTHER ->
            [store |-> [st EXCEPT ![p.chat.i] = Remove(st[p.chat.i], p.ids)],
             pending |-> [p EXCEPT !.served = TRUE,
                                   !.svc = Removed(st[p.chat.i], p.ids)]]

\* The answered fetch p as a call of the shell.
Fetched(p) == Call(p.op, p.chat, <<>>, p.n, <<>>, None, Ids(p.msgs), 0)

\* Cli.list_messages once get_all_messages is answered
list_messages(p) ==
    Effect([k \in DOMAIN p.msgs |-> Out("msg", IntV(p.msgs[k].id))],
           <<Fetched(p)>>, NoFile, NoPending)

\* Cli.list_users once get_users is answered
list_users(p) ==
    Effect([k \in DOMAIN p.msgs |-> Out("user", IntV(p.msgs[k].id))],
           <<Fetched(p)>>, NoFile, NoPending)

\* datetime.isoformat(), for the one-digit timestamps of the model
Iso(d) == StrV(<<Digits[d + 1]>>)

\* Cli.save_messages once get_all_messages is answered: the JSON array
\* written to out/messages_<ts>.json
save_messages(p) ==
    LET data == [k \in DOMAIN p.msgs |->
                   [id |-> p.msgs[k].id,
                    from |-> p.msgs[k].sender,
                    text |-> p.msgs[k].text,
                    date |-> IF p.msgs[k].date # None
                             THEN Iso(p.msgs[k].date.i)
                             ELSE None]]
    IN Effect(<<Out("Saved messages", IntV(Len(data)))>>, <<Fetched(p)>>,
              [kind |-> "messages", data |-> data], NoPending)

\* Cli.save_users once get_users is answered: the JSON array written to
\* out/users_<ts>.json
save_users(p) ==
    LET data == [k \in DOMAIN p.msgs |->
                   [id |-> p.msgs[k].id,
                    username |-> p.msgs[k].username,
                    first_name |-> p.msgs[k].first_name,
                    last_name |-> p.msgs[k].last_name]]
    IN Effect(<<Out("Saved users", IntV(Len(data)))>>, <<Fetched(p)>>,
              [kind |-> "users", data |-> data], NoPending)

\* Cli.delete_messages from the answer of its fetch to its return or its
\* second await; st is the store as it is when the handler resumes.
delete_messages(cl, st, p) ==
    LET ids == DeleteIds(st, p.chat.i, p.msgs)
    IN IF NoIds(ids)
       THEN Effect(<<Out("No messages to delete.", None)>>, <<Fetched(p)>>,
                   NoFile, NoPending)
       ELSE Await(cl, <<Fetched(p)>>, "delete_messages", p.chat, <<>>, None, ids)

\* Cli.delete_messages once delete_messages is answered: the client returns
\* and the shell prints what it returned.
delete_reply(p) ==
    LET deleted == canc_all_messages(p.svc)
    IN [out |-> <<Out("Deleted messages", deleted)>>,
        call |-> Call("delete_messages", p.chat, <<>>, None, p.ids, deleted,
                      <<>>, p.svc)]

\* The first await of the operation a list or save command runs.
Fetch(cl, target, chat, n) ==
    IF target \in MessageTargets
    THEN Await(cl, <<>>, "get_all_messages", chat, <<>>, n, <<>>)
    ELSE Await(cl, <<>>, "get_users", chat, <<>>, None, <<>>)

\* cmd_list testing the target before the selection.
CmdListTargetFirst(cl, args, cur, lim) ==
    LET p == parse_limit(args, lim)
    IN IF ~Truthy(p.target)
       THEN Effect(<<Out("Usage: list messages|users [N]", None)>>, <<>>, NoFile,
                   NoPending)
       ELSE IF p.target.s \notin (MessageTargets \cup UserTargets)
       THEN Effect(<<Out("Unknown list target. Use messages|users.", None)>>, <<>>,
                   NoFile, NoPending)
       ELSE IF NoChatSelected(cur)
       THEN Effect(<<Out("No chat selected", None)>>, <<>>, NoFile, NoPending)
       ELSE Fetch(cl, p.target.s, cur, p.count)

\* Cli.cmd_list, to the first await of list_messages or list_users
cmd_list(cl, args, cur, lim) ==
    LET p == parse_limit(args, lim)
    IN IF ~Truthy(p.target)
       THEN Effect(<<Out("Usage: list messages|users [N]", None)>>, <<>>, NoFile,
                   NoPending)
       ELSE IF NoChatSelected(cur)
       THEN Effect(<<Out("No chat selected", None)>>, <<>>, NoFile, NoPending)
       ELSE IF p.target.s \in MessageTargets \cup UserTargets
       THEN Fetch(cl, p.target.s, cur, p.count)
       ELSE Effect(<<Out("Unknown list target. Use messages|users.", None)>>, <<>>,
                   NoFile, NoPending)

\* Cli.cmd_save, to the first await of save_messages or save_users
cmd_save(cl, args, cur, lim) ==
    LET p == parse_limit(args, lim)
    IN IF ~Truthy(p.target)
       THEN Effect(<<Out("Usage: save messages|users [N]", None)>>, <<>>, NoFile,
                   NoPending)
       ELSE IF NoChatSelected(cur)
       THEN Effect(<<Out("No chat selected", None)>>, <<>>, NoFile, NoPending)
       ELSE IF p.target.s \in MessageTargets \cup UserTargets
       THEN Fetch(cl, p.target.s, cur, p.count)
       ELSE Effect(<<Out("Unknown save target. Use messages|users.", None)>>, <<>>,
                   NoFile, NoPending)

\* Cli.cmd_delete, to the first await of delete_messages
cmd_delete(cl, args, cur, lim) ==
    LET p == parse_limit(args, lim)
    IN IF ~Truthy(p.target)
       THEN Effect(<<Out("Usage: delete messages [N]", None)>>, <<>>, NoFile,
                   NoPending)
       ELSE IF NoChatSelected(cur)
       THEN Effect(<<Out("No chat selected", None)>>, <<>>, NoFile, NoPending)
       ELSE IF p.target.s \in MessageTargets
       THEN Await(cl, <<>>, "get_all_messages", cur, <<>>, p.count, <<>>)
       ELSE Effect(<<Out("Unknown delete target. Only 'messages' is supported.", None)>>,
                   <<>>, NoFile, NoPending)

\* Cli.cmd_sel, to its await of get_chat_id
cmd_sel(cl, args) ==
    IF Len(args) = 0
    THEN Effect(<<Out("Usage: select <chat-name>", None)>>, <<>>, NoFile, NoPending)
    ELSE Await(cl, <<>>, "get_chat_id", None, Join(args), None, <<>>)

\* Cli.cmd_sel once get_chat_id is answered: what it prints, the call as
\* answered, and the selection afterwards.
cmd_sel_reply(cur, p) ==
    LET chat_id == chat_by_id(p.msgs, p.name)
    IN [out |-> IF chat_id = None
                THEN <<Out("Chat not found.", None)>>
                ELSE <<Out("Chat selected", StrV(p.name))>>,
        call |-> Call("get_chat_id", None, p.name, None, <<>>, chat_id, <<>>, 0),
        current |-> SelCurrent(cur, chat_id)]

\* -------------------------------------------------------------------- state
VARIABLES
    running,    \* Cli.running
    raised,     \* the exception that ended Cli.run, "none" while it runs
    current,    \* Cli.current
    limit,      \* Cli.limit
    startup,    \* the limit argument Cli.__init__ was given
    client,     \* the client argument Cli.__init__ was given
    store,      \* the service's messages, per chat, newest first
    posted,     \* the number of messages other parties have posted
    pending,    \* the call on the client the shell is suspended on, if any
    written,    \* the file the last input line wrote under out/, if any
    output,     \* what the last input line printed
    calls,      \* the facade calls the last input line made, in order
    parsed,     \* what parse_limit returned for the last list/save/delete
    lastLine,   \* the last input line
    lastCmd,    \* what the last input line was dispatched to
    selected,   \* the identifier the most recent successful select resolved
    stream,     \* date filter: the timestamps the service yields, in order
    ts,         \* date filter: start of the range
    te,         \* date filter: end of the range
    idx,        \* date filter: number of messages consumed
    records,    \* date filter: the messages collected
    dpc         \* date filter: "idle", "iter" or "done"

cliVars == <<running, raised, current, limit, startup, client, store, posted,
             pending, written, output, calls, parsed, lastLine, lastCmd,
             selected>>
dateVars == <<stream, ts, te, idx, records, dpc>>
vars == <<cliVars, dateVars>>

NoParse == [target |-> None, count |-> None]

\* The limit argument of Cli.__init__: unset, negative, zero or positive.
StartLimits == {None, IntV(0 - 1), IntV(0), IntV(1)}

\* Cli.__init__
CliInit ==
    /\ startup \in StartLimits
    /\ client \in Clients
    /\ running = TRUE
    /\ raised = "none"
    /\ current = None
    /\ limit = InitLimit(startup)
    /\ store = InitStore
    /\ posted = 0
    /\ pending = NoPending
    /\ written = NoFile
    /\ output = <<>>
    /\ calls = <<>>
    /\ parsed = NoParse
    /\ lastLine = <<>>
    /\ lastCmd = "init"
    /\ selected = None

DatesIdle ==
    /\ stream = <<>>
    /\ ts = 0
    /\ te = 0
    /\ idx = 0
    /\ records = <<>>
    /\ dpc = "idle"

Init == CliInit /\ DatesIdle

\* The loop of Cli.run is alive: "while self.running", and no exception has
\* left it.
Alive == running /\ raised = "none"

\* The loop is at "line = await asyncio.to_thread(input, ...)": alive, and no
\* handler is suspended.
Prompt == Alive /\ pending.op = "none"

\* The head of Cli.run's loop body for each input line, computed once per
\* line: whether the line is empty ("if not line"), whether shlex.split
\* raised, the tokens, and "cmd = parts[0].lower(); args = parts[1:]"
\* (parts[0] does not exist when there is no token).
ReadLine(line) ==
    LET t == Split(line)
        some == ~t.err /\ Len(t.parts) > 0
    IN [blank |-> Len(line) = 0,
        err |-> t.err,
        parts |-> t.parts,
        cmd |-> IF some THEN Lower(t.parts[1]) ELSE <<>>,
        args |-> IF some THEN Tail(t.parts) ELSE <<>>]

Read == [line \in Lines |-> ReadLine(line)]

Cmd(line) == Read[line].cmd
Args(line) == Read[line].args

\* The line tokenizes to at least one token and its first token, lower-cased,
\* is word.
Dispatches(line, word) ==
    /\ ~Read[line].blank
    /\ ~Read[line].err
    /\ Len(Read[line].parts) > 0
    /\ Cmd(line) = word

Session == <<running, raised, current, limit, startup, client, selected>>
Service == <<store, posted, pending>>

\* "if not line: continue"
ReadBlank ==
    \E line \in Lines :
        /\ Prompt
        /\ Read[line].blank
        /\ lastLine' = line
        /\ lastCmd' = "blank"
        /\ output' = <<>>
        /\ calls' = <<>>
        /\ parsed' = NoParse
        /\ written' = NoFile
        /\ UNCHANGED <<Session, Service, dateVars>>

\* shlex.split raised ValueError: "Parse error: ...", continue
ParseError ==
    \E line \in Lines :
        /\ Prompt
        /\ ~Read[line].blank
        /\ Read[line].err
        /\ lastLine' = line
        /\ lastCmd' = "parse_error"
        /\ output' = <<Out("Parse error", None)>>
        /\ calls' = <<>>
        /\ parsed' = NoParse
        /\ written' = NoFile
        /\ UNCHANGED <<Session, Service, dateVars>>

\* shlex.split returned no token: parts[0] raises IndexError, which nothing
\* catches
NoToken ==
    \E line \in Lines :
        /\ Prompt
        /\ ~Read[line].blank
        /\ ~Read[line].err
        /\ Len(Read[line].parts) = 0
        /\ lastLine' = line
        /\ lastCmd' = "no_token"
        /\ raised' = "IndexError"
        /\ output' = <<>>
        /\ calls' = <<>>
        /\ parsed' = NoParse
        /\ written' = NoFile
        /\ UNCHANGED <<running, current, limit, startup, client, selected,
                       Service, dateVars>>

\* Cli.cmd_sel, until it returns or is suspended on get_chat_id
CmdSel ==
    \E line \in Lines :
        /\ Prompt
        /\ Dispatches(line, W_select)
        /\ lastLine' = line
        /\ lastCmd' = "select"
        /\ parsed' = NoParse
        /\ \E e \in {cmd_sel(client, Args(line))} :
              /\ output' = e.out
              /\ calls' = e.calls
              /\ written' = e.written
              /\ raised' = e.raised
              /\ pending' = e.pending
        /\ UNCHANGED <<running, current, limit, startup, client, selected,
                       store, posted, dateVars>>

\* Cli.cmd_list, until it returns or is suspended on its fetch
CmdList ==
    \E line \in Lines :
        /\ Prompt
        /\ Dispatches(line, W_list)
        /\ lastLine' = line
        /\ lastCmd' = "list"
        /\ parsed' = parse_limit(Args(line), limit)
        /\ \E e \in {cmd_list(client, Args(line), current, limit)} :
              /\ output' = e.out
              /\ calls' = e.calls
              /\ written' = e.written
              /\ raised' = e.raised
              /\ pending' = e.pending
        /\ UNCHANGED <<running, current, limit, startup, client, selected,
                       store, posted, dateVars>>

\* Cli.cmd_save, until it returns or is suspended on its fetch
CmdSave ==
    \E line \in Lines :
        /\ Prompt
        /\ Dispatches(line, W_save)
        /\ lastLine' = line
        /\ lastCmd' = "save"
        /\ parsed' = parse_limit(Args(line), limit)
        /\ \E e \in {cmd_save(client, Args(line), current, limit)} :
              /\ output' = e.out
              /\ calls' = e.calls
              /\ written' = e.written
              /\ raised' = e.raised
              /\ pending' = e.pending
        /\ UNCHANGED <<running, current, limit, startup, client, selected,
                       store, posted, dateVars>>

\* Cli.cmd_delete, until it returns or is suspended on its fetch
CmdDelete ==
    \E line \in Lines :
        /\ Prompt
        /\ Dispatches(line, W_delete)
        /\ lastLine' = line
        /\ lastCmd' = "delete"
        /\ parsed' = parse_limit(Args(line), limit)
        /\ \E e \in {cmd_delete(client, Args(line), current, limit)} :
              /\ output' = e.out
              /\ calls' = e.calls
              /\ written' = e.written
              /\ raised' = e.raised
              /\ pending' = e.pending
        /\ UNCHANGED <<running, current, limit, startup, client, selected,
                       store, posted, dateVars>>

\* The service answers the call the shell is suspended on; the shell has not
\* resumed yet.
Serve ==
    /\ Alive
    /\ pending.op # "none"
    /\ ~pending.served
    /\ \E r \in {serve(store, pending)} :
          /\ store' = r.store
          /\ pending' = r.pending
    /\ UNCHANGED <<Session, posted, written, output, calls, parsed, lastLine,
                   lastCmd, dateVars>>

\* Cli.cmd_sel resumes with the answer of get_chat_id and returns to the loop.
SelReply ==
    /\ Alive
    /\ pending.op = "get_chat_id"
    /\ pending.served
    /\ \E e \in {cmd_sel_reply(current, pending)} :
          /\ output' = e.out
          /\ calls' = <<e.call>>
          /\ current' = e.current
          /\ selected' = IF e.call.ret # None THEN e.call.ret ELSE selected
    /\ pending' = NoPending
    /\ UNCHANGED <<running, raised, limit, startup, client, store, posted,
                   written, parsed, lastLine, lastCmd, dateVars>>

\* Cli.list_messages or Cli.list_users resumes with the answer of its fetch.
ListReply ==
    /\ Alive
    /\ lastCmd = "list"
    /\ pending.op \in {"get_all_messages", "get_users"}
    /\ pending.served
    /\ \E e \in {IF pending.op = "get_all_messages"
                 THEN list_messages(pending)
                 ELSE list_users(pending)} :
          /\ output' = e.out
          /\ calls' = e.calls
          /\ written' = e.written
          /\ pending' = e.pending
    /\ UNCHANGED <<Session, store, posted, parsed, lastLine, lastCmd, dateVars>>

\* Cli.save_messages or Cli.save_users resumes with the answer of its fetch.
SaveReply ==
    /\ Alive
    /\ lastCmd = "save"
    /\ pending.op \in {"get_all_messages", "get_users"}
    /\ pending.served
    /\ \E e \in {IF pending.op = "get_all_messages"
                 THEN save_messages(pending)
                 ELSE save_users(pending)} :
          /\ output' = e.out
          /\ calls' = e.calls
          /\ written' = e.written
          /\ pending' = e.pending
    /\ UNCHANGED <<Session, store, posted, parsed, lastLine, lastCmd, dateVars>>

\* Cli.delete_messages resumes with the answer of its fetch, and returns or
\* is suspended on the delete call.
FetchReply ==
    /\ Alive
    /\ lastCmd = "delete"
    /\ pending.op = "get_all_messages"
    /\ pending.served
    /\ \E e \in {delete_messages(client, store, pending)} :
          /\ output' = e.out
          /\ calls' = e.calls
          /\ written' = e.written
          /\ raised' = e.raised
          /\ pending' = e.pending
    /\ UNCHANGED <<running, current, limit, startup, client, selected, store,
                   posted, parsed, lastLine, lastCmd, dateVars>>

\* Cli.delete_messages resumes with the answer of the delete call, prints
\* and returns to the loop.
DeleteReply ==
    /\ Alive
    /\ pending.op = "delete_messages"
    /\ pending.served
    /\ \E r \in {delete_reply(pending)} :
          /\ calls' = Append(calls, r.call)
          /\ output' = r.out
    /\ pending' = NoPending
    /\ UNCHANGED <<Session, store, posted, written, parsed, lastLine, lastCmd,
                   dateVars>>

\* Another party posts a message to the selected chat while the shell waits
\* for input, for the service, or to resume: it becomes the chat's newest
\* message.
EnvPost ==
    \E c \in ChatIds :
        /\ Alive
        /\ current = IntV(c)
        /\ posted < MaxPosts
        /\ posted' = posted + 1
        /\ store' = [store EXCEPT ![c] = <<Msg(FirstPosted + posted)>> \o @]
        /\ UNCHANGED <<Session, pending, written, output, calls, parsed,
                       lastLine, lastCmd, dateVars>>

\* Another party removes a message from the selected chat while the shell
\* waits.
EnvRemove ==
    \E c \in ChatIds :
    \E j \in DOMAIN store[c] :
        /\ Alive
        /\ current = IntV(c)
        /\ store' = [store EXCEPT ![c] = Remove(@, <<store[c][j].id>>)]
        /\ UNCHANGED <<Session, posted, pending, written, output, calls,
                       parsed, lastLine, lastCmd, dateVars>>

\* "elif cmd == 'exit': self.running = False"
CmdExit ==
    \E line \in Lines :
        /\ Prompt
        /\ Dispatches(line, W_exit)
        /\ lastLine' = line
        /\ lastCmd' = "exit"
        /\ running' = FALSE
        /\ output' = <<>>
        /\ calls' = <<>>
        /\ parsed' = NoParse
        /\ written' = NoFile
        /\ UNCHANGED <<raised, current, limit, startup, client, selected,
                       Service, dateVars>>

\* Cli.cmd_help
CmdHelp ==
    \E line \in Lines :
        /\ Prompt
        /\ Dispatches(line, W_help)
        /\ lastLine' = line
        /\ lastCmd' = "help"
        /\ output' = <<Out("Commands", None)>>
        /\ calls' = <<>>
        /\ parsed' = NoParse
        /\ written' = NoFile
        /\ UNCHANGED <<Session, Service, dateVars>>

\* "else: print('Unknown command. Type 'help'.')"
CmdUnknown ==
    \E line \in Lines :
        /\ Prompt
        /\ ~Read[line].blank
        /\ ~Read[line].err
        /\ Len(Read[line].parts) > 0
        /\ Cmd(line) \notin {W_select, W_list, W_save, W_delete, W_exit, W_help}
        /\ lastLine' = line
        /\ lastCmd' = "unknown"
        /\ output' = <<Out("Unknown command. Type 'help'.", None)>>
        /\ calls' = <<>>
        /\ parsed' = NoParse
        /\ written' = NoFile
        /\ UNCHANGED <<Session, Service, dateVars>>

\* One step of the session: the shell reads a line and runs to its return to
\* the prompt or to its next await; the service answers the call awaited;
\* the shell resumes with the answer and runs to its next await or to the
\* prompt; or another party acts on the service.
Next ==
    \/ ReadBlank
    \/ ParseError
    \/ NoToken
    \/ CmdSel
    \/ CmdList
    \/ CmdSave
    \/ CmdDelete
    \/ Serve
    \/ SelReply
    \/ ListReply
    \/ SaveReply
    \/ FetchReply
    \/ DeleteReply
    \/ EnvPost
    \/ EnvRemove
    \/ CmdExit
    \/ CmdHelp
    \/ CmdUnknown

Spec == Init /\ [][Next]_vars

\* -------------------------------------------------------- date-range filter
\* Client.messages_between_dates(chat_id, ts, te, limit): the service yields
\* the messages of stream one by one; message k carries timestamp stream[k].
Dates == 0..MaxDate
Streams == UNION {[1..n -> Dates] : n \in 0..MaxStream}

StreamMsg(str, k) == [id |-> 100 - k, date |-> str[k]]

\* The break test with the start of the range excluded.
TooOldInclusive(m, start) == m.date <= start

\* "if m.date < ts: break"
TooOld(m, start) == m.date < start

\* "if ts <= m.date <= te"
InRange(m, start, end) == start <= m.date /\ m.date <= end

InitDates ==
    /\ startup = None
    /\ client = "Client"
    /\ CliInit
    /\ stream \in Streams
    /\ ts \in Dates
    /\ te \in Dates
    /\ idx = 0
    /\ records = <<>>
    /\ dpc = "iter"

\* One pass of the "async for" body
DatesStep ==
    /\ dpc = "iter"
    /\ idx < Len(stream)
    /\ idx' = idx + 1
    /\ \E m \in {StreamMsg(stream, idx + 1)} :
         IF TooOld(m, ts)
         THEN /\ dpc' = "done"
              /\ UNCHANGED records
         ELSE /\ dpc' = "iter"
              /\ records' = IF InRange(m, ts, te) THEN Append(records, m) ELSE records
    /\ UNCHANGED <<cliVars, stream, ts, te>>

\* The service has no more messages: "return records"
DatesReturn ==
    /\ dpc = "iter"
    /\ idx = Len(stream)
    /\ dpc' = "done"
    /\ UNCHANGED <<cliVars, stream, ts, te, idx, records>>

NextDates ==
    \/ DatesStep
    \/ DatesReturn

SpecDates == InitDates /\ [][NextDates]_vars

\* ------------------------------------------------------------------ claims
MessagesUsage(cmd) ==
    CASE cmd = "list" -> <<Out("Usage: list messages|users [N]", None)>>
      [] cmd = "save" -> <<Out("Usage: save messages|users [N]", None)>>
      [] OTHER -> <<Out("Usage: delete messages [N]", None)>>

NoChatOutput == <<Out("No chat selected", None)>>

\* C1 as stated: a list, save or delete command processed before any select
\* has succeeded makes no facade call, and prints "No chat selected" whenever
\* parse_limit returned a target (anything but None).
C1_NoChatAnyTarget ==
    (lastCmd \in {"list", "save", "delete"} /\ selected = None)
        => /\ calls = <<>>
           /\ pending.op = "none"
           /\ parsed.target # None => output = NoChatOutput

\* C1, amended: a list, save or delete command processed before any select
\* has succeeded makes no facade call, and prints "No chat selected" whenever
\* parse_limit returned a non-empty target (the empty target, as in
\* list "", gets the usage line).
C1_NoChatNoCall ==
    (lastCmd \in {"list", "save", "delete"} /\ selected = None)
        => /\ calls = <<>>
           /\ pending.op = "none"
           /\ raised = "none"
           /\ Truthy(parsed.target) => output = NoChatOutput

C1_Witness ==
    /\ lastCmd = "list"
    /\ selected = None
    /\ lastLine = LineListX
    /\ output = NoChatOutput
    /\ calls = <<>>

\* C2: a select whose name equals no dialog's name (case-sensitive) has,
\* once it is no longer suspended, printed "Chat not found." and left the
\* current chat as it was.
C2_SelectNotFoundKeepsCurrent ==
    [][(/\ lastCmd' = "select"
        /\ Len(Args(lastLine')) > 0
        /\ \A k \in DOMAIN Dialogs : Dialogs[k].name # Join(Args(lastLine'))
        /\ pending'.op = "none")
           => /\ output' = <<Out("Chat not found.", None)>>
              /\ current' = current]_vars

\* C3: a delete on a selected chat whose fetch returned no message prints
\* "No messages to delete." and makes no delete call, and no delete call is
\* ever made with no identifier.
C3_EmptyFetchNoDelete ==
    /\ (/\ lastCmd = "delete"
        /\ Len(calls) >= 1
        /\ calls[1].op = "get_all_messages"
        /\ calls[1].msgs = <<>>)
           => /\ output = <<Out("No messages to delete.", None)>>
              /\ Len(calls) = 1
              /\ pending.op = "none"
    /\ pending.op = "delete_messages" => Len(pending.ids) > 0

C3_Witness ==
    /\ lastCmd = "delete"
    /\ lastLine = LineDeleteMessages
    /\ current = IntV(0 - 2)
    /\ Len(calls) = 1
    /\ calls[1].msgs = <<>>
    /\ pending.op = "none"
    /\ output = <<Out("No messages to delete.", None)>>

\* C4: when the fetch of a delete command returns messages, the facade's
\* delete returns the count k the service reported and the shell prints
\* "Deleted k messages".
C4_DeletedCountPrinted ==
    (lastCmd = "delete" /\ Len(calls) = 2)
        => /\ calls[2].ret = IntV(calls[2].svc)
           /\ output = <<Out("Deleted messages", IntV(calls[2].svc))>>

\* The targets a command knows.
Targets(cmd) ==
    IF cmd = "delete" THEN MessageTargets ELSE MessageTargets \cup UserTargets

\* The input lines that are user input errors or blank: empty or
\* whitespace-only, badly quoted, an unknown command, or a list/save/delete
\* with no target, a count that is not an integer, an unknown target or no
\* chat selected.
InputError ==
    \/ lastCmd \in {"blank", "no_token", "parse_error", "unknown"}
    \/ /\ lastCmd \in {"list", "save", "delete"}
       /\ \/ ~Truthy(parsed.target)
          \/ NoChatSelected(current)
          \/ parsed.target.s \notin Targets(lastCmd)

\* C5: a user input error or a blank line never ends the loop: nothing is
\* raised, the shell keeps running, and every such line but a blank one
\* prints a message.
C5_InputErrorsNeverFatal ==
    InputError
        => /\ raised = "none"
           /\ running
           /\ lastCmd \notin {"blank", "no_token"} => Len(output) = 1

\* C6: parse_limit on the arguments of a list, save or delete command.
C6_ParseLimit ==
    lastCmd \in {"list", "save", "delete"} =>
        LET args == Args(lastLine) IN
        /\ Len(args) = 0 => parsed = NoParse
        /\ Len(args) = 1 =>
              parsed = [target |-> StrV(Lower(args[1])), count |-> limit]
        /\ (Len(args) >= 2 /\ ParseInt(args[2]).ok) =>
              parsed = [target |-> StrV(Lower(args[1])),
                        count |-> IntV(ParseInt(args[2]).val)]
        /\ (Len(args) >= 2 /\ ~ParseInt(args[2]).ok) =>
              /\ parsed = NoParse
              /\ output = MessagesUsage(lastCmd)
        /\ lastLine = LineListMsg1 => parsed = [target |-> StrV(W_msg), count |-> IntV(1)]
        /\ lastLine = LineListMNeg => parsed = [target |-> StrV(W_m), count |-> IntV(0 - 1)]
        /\ lastLine = LineListMPadded => parsed = [target |-> StrV(W_m), count |-> IntV(2)]
        /\ lastLine = LineDeleteM1 => parsed = [target |-> StrV(W_msg), count |-> IntV(1)]
        /\ lastLine = LineListMFormFeed =>
              parsed = [target |-> StrV(W_m), count |-> IntV(1)]
        /\ lastLine = LineListMFileSep => parsed = NoParse
        /\ lastLine \in {LineListMAbc, LineListXY, LineSaveMFloat, LineDeleteMX} =>
              parsed = NoParse

C6_Witness ==
    /\ lastCmd = "list"
    /\ lastLine = LineListMAbc
    /\ Truthy(current)
    /\ parsed = NoParse
    /\ output = MessagesUsage("list")

\* C7: only a select that resolves changes the current chat, and the default
\* limit never changes.
C7_SessionFrame ==
    [][/\ limit' = limit
       /\ current' # current
            => /\ lastCmd' = "select"
               /\ Len(calls') = 1
               /\ calls'[1].op = "get_chat_id"
               /\ calls'[1].ret # None
               /\ current' = calls'[1].ret]_vars

C7_Witness ==
    /\ lastCmd = "select"
    /\ lastLine = LineSelectNope
    /\ Len(calls) = 1
    /\ calls[1].ret = None
    /\ current = IntV(2)
    /\ limit = IntV(1)

\* C8: the default limit is a positive integer: the startup value when that
\* is a positive integer, 1000 otherwise.
C8_DefaultLimitPositive ==
    /\ limit.tag = "int"
    /\ limit.i > 0
    /\ limit = IF startup.tag = "int" /\ startup.i > 0
              THEN startup
              ELSE IntV(DefaultLimit)

NonIncreasing(str) == \A k \in 1..(Len(str) - 1) : str[k] >= str[k + 1]

AllStreamMsgs == [k \in DOMAIN stream |-> StreamMsg(stream, k)]

\* The position of the first yielded message older than ts, or the length of
\* the stream when there is none.
StopAt ==
    IF \E k \in DOMAIN stream : stream[k] < ts
    THEN CHOOSE k \in DOMAIN stream :
            /\ stream[k] < ts
            /\ \A j \in 1..(k - 1) : stream[j] >= ts
    ELSE Len(stream)

\* C9: on a stream in non-increasing timestamp order the filter returns
\* exactly the yielded messages with ts <= t <= te, in the order yielded, and
\* consumes nothing after the first message with t < ts.
C9_DateFilter ==
    NonIncreasing(stream)
        => /\ idx <= StopAt
           /\ dpc = "done"
                => /\ records = SelectSeq(AllStreamMsgs,
                                          LAMBDA m : ts <= m.date /\ m.date <= te)
                   /\ idx = StopAt

C9_Witness ==
    /\ dpc = "done"
    /\ NonIncreasing(stream)
    /\ idx < Len(stream)
    /\ Len(records) = 2
    /\ records[1].date = te
    /\ records[2].date = ts
    /\ te > ts

IsFetch(c) == c.op = "get_all_messages"
IsDelete(c) == c.op = "delete_messages"

\* C10: a delete call is made only by a delete command, once, right after
\* that command's single fetch, on the chat the most recent successful select
\* resolved, with exactly the identifiers the fetch returned; this holds of
\* the call while the shell awaits its answer and once it is answered.
C10_DeleteCallDiscipline ==
    /\ pending.op = "delete_messages"
            => /\ lastCmd = "delete"
               /\ Len(calls) = 1
               /\ IsFetch(calls[1])
               /\ selected # None
               /\ calls[1].chat = selected
               /\ pending.chat = selected
               /\ pending.ids = calls[1].msgs
               /\ Len(pending.ids) > 0
    /\ \A k \in DOMAIN calls :
        IsDelete(calls[k])
            => /\ lastCmd = "delete"
               /\ pending.op = "none"
               /\ k = 2
               /\ Len(calls) = 2
               /\ IsFetch(calls[1])
               /\ selected # None
               /\ calls[1].chat = selected
               /\ calls[2].chat = selected
               /\ calls[2].ids = calls[1].msgs
               /\ Len(calls[2].ids) > 0

C10_Witness ==
    /\ lastCmd = "delete"
    /\ lastLine = LineDeleteM1
    /\ Len(calls) = 2
    /\ IsDelete(calls[2])
    /\ selected = IntV(1)
    /\ calls[1].msgs = <<11>>
    /\ calls[2].ids = <<11>>
    /\ calls[2].svc = 1
    /\ Len(store[1]) > 0
    /\ store[1][1] = Msg(FirstPosted)

====
